---- MODULE Spec2Model ----
(***************************************************************************)
(* Model of openerz_api/main.py: the OpenERZConnector (find_next_pickup)   *)
(* and OpenERZParameters (_query_parameters, get_regions, get_areas,       *)
(* get_types) coroutines, run by one cooperative scheduler.                *)
(*                                                                         *)
(* A coroutine runs without interruption between two points where it is    *)
(* suspended.  The suspension points of the code are                       *)
(*   - `async with self._session.get(...)`  (lines 84, 180),               *)
(*   - `await r.json()`                     (lines 90, 186),               *)
(*   - `await session.close()`              (lines 93, 189).               *)
(* `await self._make_api_request(...)` (line 142) and the awaits of        *)
(* _query_parameters in get_regions/get_areas/get_types run the callee     *)
(* inline and are no suspension points.  One action of the model is one    *)
(* such uninterrupted stretch of one call.                                 *)
(*                                                                         *)
(* Python's None as a field value is the string None below, as a returned  *)
(* object it is the record PyNone.  A datetime is a number of clock ticks, *)
(* TicksPerDay of them in a day; a formatted date (%Y-%m-%d) is a day      *)
(* number.  An aiohttp session is "none" (no object), "open" or "closed".  *)
(***************************************************************************)
EXTENDS Integers, Sequences, FiniteSets, TLC

VARIABLES
    region,               \* OpenERZConnector.region
    area,                 \* OpenERZConnector.area
    start_date,           \* OpenERZConnector.start_date
    end_date,             \* OpenERZConnector.end_date (None before the first call)
    _session,             \* _session of each of the two objects
    now,                  \* the wall clock, datetime.datetime.now()
    pc,                   \* where each call is
    op,                   \* the operation each call runs
    args,                 \* the arguments of each call
    started,              \* the clock when find_next_pickup was called
    payload,              \* local `payload` of each call
    use_running_session,  \* local `use_running_session` of each call
    session,              \* the private ClientSession of each call
    request,              \* the GET each call has issued
    resp,                 \* the HTTP response each call has been given
    exc,                  \* the exception in flight in / raised by each call
    result,               \* local `result` of each call
    ret                   \* the value each call has returned

vars == <<region, area, start_date, end_date, _session, now, pc, op, args,
          started, payload, use_running_session, session, request, resp,
          exc, result, ret>>

---------------------------------------------------------------------------
(* Bounds of the model. *)

NCalls == 2
MaxNow == 2
TicksPerDay == 2
MaxTotalCount == 1
MaxAreas == 2

(* Program constants. *)

DefaultDayOffset == 31

Calls == 1 .. NCalls
Objects == {"connector", "parameters"}

None == "<None>"
PyNone == [is_none |-> TRUE]

---------------------------------------------------------------------------
(* Values the environment supplies. *)

RegionValues == {"zurich", "bern", ""}
AreaValues == {"8001", "8002"}
WasteTypeValues == {"paper", "waste"}
DateValues == {"2026-11-05", ""}
StationValues == {"depot", ""}
DescriptionValues == {"glass", ""}

EventKeys == {"date", "station", "description"}

(* The entries of a calendar result: region, area, waste_type and date are *)
(* always there, station, description and zip may be missing.              *)
CalendarEntries ==
    { [k \in (({"region", "area", "waste_type", "date"} \cup opt)) |->
          CASE k = "region" -> r
            [] k = "area" -> a
            [] k = "waste_type" -> w
            [] k = "date" -> d
            [] k = "station" -> s
            [] k = "description" -> x
            [] OTHER -> "8001"] :
        r \in RegionValues, a \in AreaValues, w \in WasteTypeValues,
        d \in DateValues, s \in StationValues, x \in DescriptionValues,
        opt \in {{}, {"station", "description"}, {"station", "description", "zip"}} }

SeqsUpTo(S, n) == UNION { [1 .. k -> S] : k \in 0 .. n }

(* The JSON bodies of /api/calendar.json (limit=1: at most one entry). *)
CalendarBodies ==
    { [_metadata |-> [total_count |-> n], result |-> l] :
        n \in 0 .. MaxTotalCount, l \in SeqsUpTo(CalendarEntries, 1) }

(* The JSON bodies of /api/parameter/areas. *)
AreaEntries == { [region |-> r, area |-> a] : r \in {"zurich", "bern"}, a \in AreaValues }
AreasBodies == { [result |-> l] : l \in SeqsUpTo(AreaEntries, MaxAreas) }

(* The JSON bodies of /api/parameter/regions and /api/parameter/types. *)
NamesBodies == { [result |-> l] : l \in SeqsUpTo({"zurich", "bern"}, 2) }

Malformed == [malformed |-> TRUE]
NoResponse == [kind |-> "none"]
TransportError == [kind |-> "error"]
Responses(bodies) ==
    { [kind |-> "response", ok |-> o, body |-> b] :
        o \in BOOLEAN, b \in bodies \cup {Malformed} }
    \cup {TransportError}

NoRequest == [on |-> "none"]
NoPayload == [url |-> "none"]
NoArgs == [param |-> "none"]

---------------------------------------------------------------------------
(* OpenERZConnector: the date window and the payload. *)

timedelta(days) == days * TicksPerDay

strftime(t) == t \div TicksPerDay

UpdateStartDate == now

(* FindEndDate adding day_offset as clock ticks instead of days. *)
FindEndDateNoDays(start, day_offset) == start + day_offset

FindEndDate(start, day_offset) == start + timedelta(day_offset)

(* Lines 60-74.  No value of the payload is None (region, area and the     *)
(* waste type are strings), so the filter of line 74 drops nothing.        *)
CalendarPayload(start, end, waste_type) ==
    [url |-> "calendar.json",
     region |-> region, area |-> area, types |-> waste_type,
     start |-> strftime(start), end |-> strftime(end),
     offset |-> 0, limit |-> 1, lang |-> "en", sort |-> "date"]

---------------------------------------------------------------------------
(* OpenERZParameters: validation and the payload. *)

valid_params == {"areas", "regions", "types"}

(* ParamIsValid with the membership test left out. *)
ParamIsValidAlways(param) == TRUE

ParamIsValid(param) == param \in valid_params

ParameterPayload(param, query) ==
    [url |-> "parameter/" \o param, params |-> query]

---------------------------------------------------------------------------
(* The request pattern both classes share (lines 78-93 and 174-189). *)

(* UseRunningSession with the `not` left out. *)
UseRunningSessionIfClosed(o) == _session[o] = "closed"

(* use_running_session := self._session and not self._session.closed *)
UseRunningSession(o) == _session[o] = "open"

(* The object whose .get is called: self._session. *)
RequestSession(o, use_running) == "supplied"

(* CloseNeeded with the test inverted. *)
CloseNeededInverted(use_running) == use_running

(* finally: if not use_running_session: await session.close() *)
CloseNeeded(use_running) == ~use_running

---------------------------------------------------------------------------
(* _parse_api_response *)

(* Normalise leaving empty strings as they are. *)
NormaliseKeepEmpty(entry) == entry

Normalise(entry) == [k \in DOMAIN entry |-> IF entry[k] = "" THEN None ELSE entry[k]]

Restrict(f, keys) == [k \in (DOMAIN f) \cap keys |-> f[k]]

(* EntryMatches without the comparison of the area. *)
EntryMatchesNoArea(first, waste_type) ==
    /\ first["region"] = region
    /\ first["waste_type"] = waste_type

EntryMatches(first, waste_type) ==
    /\ first["region"] = region
    /\ first["area"] = area
    /\ first["waste_type"] = waste_type

(* What the parser does once the total_count test is passed: lines 109-127. *)
ParseFirstEntry(response, waste_type) ==
    IF Len(response.result) = 0
    THEN [exc |-> "IndexError", ret |-> <<>>]
    ELSE LET first_scheduled_pickup == Normalise(response.result[1])
         IN  IF EntryMatches(first_scheduled_pickup, waste_type)
             THEN [exc |-> "none", ret |-> <<Restrict(first_scheduled_pickup, EventKeys)>>]
             ELSE [exc |-> "none", ret |-> <<PyNone>>]

(* ParseApiResponse testing the result list instead of total_count. *)
ParseApiResponseByLength(response, waste_type) ==
    IF Len(response.result) = 0
    THEN [exc |-> "none", ret |-> <<PyNone>>]
    ELSE ParseFirstEntry(response, waste_type)

ParseApiResponse(response, waste_type) ==
    IF response._metadata.total_count = 0
    THEN [exc |-> "none", ret |-> <<PyNone>>]
    ELSE ParseFirstEntry(response, waste_type)

---------------------------------------------------------------------------
(* get_areas: [d["area"] for d in areas if d["region"] == region] *)

(* AreasOf without the test of the region. *)
AreasOfAnyRegion(areas, reg) == [i \in 1 .. Len(areas) |-> areas[i].area]

RECURSIVE AreasOf(_, _)
AreasOf(areas, reg) ==
    IF areas = <<>> THEN <<>>
    ELSE (IF Head(areas).region = reg THEN <<Head(areas).area>> ELSE <<>>)
         \o AreasOf(Tail(areas), reg)

---------------------------------------------------------------------------
(* What a call of `operation` with arguments a returns or raises once its   *)
(* request is over with exception e ("none": no exception) and decoded     *)
(* body json.                                                              *)

Outcome(operation, a, e, json) ==
    IF e # "none" THEN [exc |-> e, ret |-> <<>>]
    ELSE CASE operation = "find_next_pickup" -> ParseApiResponse(json[1], a.waste_type)
           [] operation = "get_areas" ->
                [exc |-> "none", ret |-> <<AreasOf(json[1].result, a.region)>>]
           [] OTHER -> [exc |-> "none", ret |-> <<json[1].result>>]

(* The end of the try block: the finally clause, then the rest of the call *)
(* unless the private session has to be closed first.                      *)
LeaveTry(c, operation, a, use_running, e, json) ==
    IF CloseNeeded(use_running)
    THEN /\ pc' = [pc EXCEPT ![c] = "closing"]
         /\ exc' = [exc EXCEPT ![c] = e]
         /\ result' = [result EXCEPT ![c] = json]
         /\ ret' = ret
    ELSE /\ pc' = [pc EXCEPT ![c] = "done"]
         /\ exc' = [exc EXCEPT ![c] = Outcome(operation, a, e, json).exc]
         /\ result' = [result EXCEPT ![c] = json]
         /\ ret' = [ret EXCEPT ![c] = Outcome(operation, a, e, json).ret]

(* Lines 78-84: select the session, then call self._session.get and wait   *)
(* for the response.  With no _session the attribute lookup raises         *)
(* AttributeError; get on a closed session raises RuntimeError.            *)
SendRequest(c, o, operation, a, p) ==
    LET use_running == UseRunningSession(o)
        on == RequestSession(o, use_running)
        target == IF on = "supplied" THEN _session[o] ELSE "open"
    IN  /\ payload' = [payload EXCEPT ![c] = p]
        /\ use_running_session' = [use_running_session EXCEPT ![c] = use_running]
        /\ session' = [session EXCEPT ![c] = IF use_running THEN "none" ELSE "open"]
        /\ IF target = "open"
           THEN /\ request' = [request EXCEPT ![c] = [on |-> on, payload |-> p]]
                /\ pc' = [pc EXCEPT ![c] = "awaitGet"]
                /\ UNCHANGED <<exc, result, ret>>
           ELSE /\ request' = request
                /\ LeaveTry(c, operation, a, use_running,
                            IF target = "none" THEN "AttributeError" ELSE "RuntimeError",
                            <<>>)

---------------------------------------------------------------------------
(* The state after construction: a connector and a parameter object, each  *)
(* with no session, an open session or a session its owner closed already. *)

Init ==
    /\ region \in {"zurich", ""}
    /\ area = "8001"
    /\ now = 0
    /\ start_date = 0
    /\ end_date = None
    /\ _session \in [Objects -> {"none", "open", "closed"}]
    /\ pc = [c \in Calls |-> "idle"]
    /\ op = [c \in Calls |-> "none"]
    /\ args = [c \in Calls |-> NoArgs]
    /\ started = [c \in Calls |-> 0]
    /\ payload = [c \in Calls |-> NoPayload]
    /\ use_running_session = [c \in Calls |-> FALSE]
    /\ session = [c \in Calls |-> "none"]
    /\ request = [c \in Calls |-> NoRequest]
    /\ resp = [c \in Calls |-> NoResponse]
    /\ exc = [c \in Calls |-> "none"]
    /\ result = [c \in Calls |-> <<>>]
    /\ ret = [c \in Calls |-> <<>>]

---------------------------------------------------------------------------
(* find_next_pickup up to its first suspension: lines 140-141 and 58-84. *)

FindNextPickup(c, waste_type, day_offset) ==
    /\ pc[c] = "idle"
    /\ op' = [op EXCEPT ![c] = "find_next_pickup"]
    /\ args' = [args EXCEPT ![c] = [waste_type |-> waste_type, day_offset |-> day_offset]]
    /\ started' = [started EXCEPT ![c] = now]
    /\ start_date' = UpdateStartDate
    /\ end_date' = FindEndDate(start_date', day_offset)
    /\ SendRequest(c, "connector", "find_next_pickup", args'[c],
                   CalendarPayload(start_date', end_date', waste_type))
    /\ UNCHANGED <<region, area, _session, now, resp>>

(* The arguments get_regions, get_areas and get_types pass on. *)
ParamOf(operation, param) ==
    CASE operation = "get_regions" -> "regions"
      [] operation = "get_areas" -> "areas"
      [] operation = "get_types" -> "types"
      [] OTHER -> param

QueryOf(operation, reg) ==
    IF operation \in {"get_areas", "get_types"} THEN [region |-> reg] ELSE PyNone

ParameterOperations == {"_query_parameters", "get_regions", "get_areas", "get_types"}

(* _query_parameters, called directly or by get_regions, get_areas or      *)
(* get_types, up to its first suspension: lines 163-180.                   *)
QueryParameters(c, operation, param, reg) ==
    /\ pc[c] = "idle"
    /\ operation \in ParameterOperations
    /\ op' = [op EXCEPT ![c] = operation]
    /\ args' = [args EXCEPT ![c] = [param |-> ParamOf(operation, param), region |-> reg]]
    /\ IF ~ParamIsValid(ParamOf(operation, param))
       THEN /\ pc' = [pc EXCEPT ![c] = "done"]
            /\ exc' = [exc EXCEPT ![c] = "ValueError"]
            /\ UNCHANGED <<payload, use_running_session, session, request, result, ret>>
       ELSE SendRequest(c, "parameters", operation, args'[c],
                        ParameterPayload(ParamOf(operation, param), QueryOf(operation, reg)))
    /\ UNCHANGED <<region, area, start_date, end_date, _session, now, started, resp>>

(* `if not r.ok: self.logger.warning(..., r.status_code)`: the exception   *)
(* the statement raises ("none": it logs and goes on).  An aiohttp         *)
(* ClientResponse has `status` and no `status_code`.                       *)
WarnNotOk == "AttributeError"

(* The response arrives: lines 84-89 (180-185). *)
ResponseArrives(c, r) ==
    /\ pc[c] = "awaitGet"
    /\ resp' = [resp EXCEPT ![c] = r]
    /\ IF r = TransportError
       THEN LeaveTry(c, op[c], args[c], use_running_session[c], "ClientError", <<>>)
       ELSE IF ~r.ok /\ WarnNotOk # "none"
       THEN LeaveTry(c, op[c], args[c], use_running_session[c], WarnNotOk, <<>>)
       ELSE /\ pc' = [pc EXCEPT ![c] = "awaitJson"]
            /\ UNCHANGED <<exc, result, ret>>
    /\ UNCHANGED <<region, area, start_date, end_date, _session, now, op, args,
                   started, payload, use_running_session, session, request>>

(* The body is read and decoded: lines 90-94 (186-192), and for            *)
(* find_next_pickup line 143, for get_areas line 202.                      *)
JsonArrives(c) ==
    /\ pc[c] = "awaitJson"
    /\ IF resp[c].body = Malformed
       THEN LeaveTry(c, op[c], args[c], use_running_session[c], "JSONDecodeError", <<>>)
       ELSE LeaveTry(c, op[c], args[c], use_running_session[c], "none", <<resp[c].body>>)
    /\ UNCHANGED <<region, area, start_date, end_date, _session, now, op, args,
                   started, payload, use_running_session, session, request, resp>>

(* `await session.close()` of the finally clause returns: lines 93-94      *)
(* (189-192), then the rest of the call as in JsonArrives.                 *)
SessionClosed(c) ==
    /\ pc[c] = "closing"
    /\ session' = [session EXCEPT ![c] = "closed"]
    /\ pc' = [pc EXCEPT ![c] = "done"]
    /\ exc' = [exc EXCEPT ![c] = Outcome(op[c], args[c], exc[c], result[c]).exc]
    /\ ret' = [ret EXCEPT ![c] = Outcome(op[c], args[c], exc[c], result[c]).ret]
    /\ UNCHANGED <<region, area, start_date, end_date, _session, now, op, args,
                   started, payload, use_running_session, request, resp, result>>

(* The application closes a session it supplied. *)
CallerClosesSession(o) ==
    /\ _session[o] = "open"
    /\ _session' = [_session EXCEPT ![o] = "closed"]
    /\ UNCHANGED <<region, area, start_date, end_date, now, pc, op, args, started,
                   payload, use_running_session, session, request, resp, exc,
                   result, ret>>

(* Time passes. *)
Tick ==
    /\ now < MaxNow
    /\ now' = now + 1
    /\ UNCHANGED <<region, area, start_date, end_date, _session, pc, op, args,
                   started, payload, use_running_session, session, request, resp,
                   exc, result, ret>>

---------------------------------------------------------------------------
(* The bodies a call can be answered with. *)

BodiesFor(c) ==
    CASE op[c] = "find_next_pickup" -> CalendarBodies
      [] args[c].param = "areas" -> AreasBodies
      [] OTHER -> NamesBodies

(* One body of each kind, for the runs with several calls in flight. *)
OneBodyFor(c) ==
    CASE op[c] = "find_next_pickup" ->
            [_metadata |-> [total_count |-> 1],
             result |-> <<[region |-> "zurich", area |-> "8001",
                           waste_type |-> "paper", date |-> "2026-11-05",
                           station |-> "", description |-> ""]>>]
      [] args[c].param = "areas" ->
            [result |-> <<[region |-> "zurich", area |-> "8001"],
                          [region |-> "bern", area |-> "8002"]>>]
      [] OTHER -> [result |-> <<"zurich", "bern">>]

DayOffsets == {1, DefaultDayOffset}

---------------------------------------------------------------------------
(* Spec: the sessions and requests of concurrent calls on both objects. *)

LibraryStep(c) ==
    \/ FindNextPickup(c, "paper", DefaultDayOffset)
    \/ \E o \in ParameterOperations, p \in {"areas", "bogus"} :
           QueryParameters(c, o, p, "zurich")
    \/ \E r \in Responses({OneBodyFor(c)}) : ResponseArrives(c, r)
    \/ JsonArrives(c)
    \/ SessionClosed(c)

Next ==
    \/ \E c \in Calls : LibraryStep(c)
    \/ \E o \in Objects : CallerClosesSession(o)

Spec == Init /\ [][Next]_vars

---------------------------------------------------------------------------
(* SpecWindow: concurrent find_next_pickup calls with different day        *)
(* offsets on one connector while time passes.                             *)

InitWindow ==
    /\ Init
    /\ region = "zurich"
    /\ _session["connector"] \in {"none", "open"}
    /\ _session["parameters"] = "none"

NextWindow ==
    \/ \E c \in Calls, d \in DayOffsets : FindNextPickup(c, "paper", d)
    \/ \E c \in Calls :
           \E r \in {[kind |-> "response", ok |-> TRUE, body |-> OneBodyFor(c)],
                     TransportError} : ResponseArrives(c, r)
    \/ \E c \in Calls : JsonArrives(c)
    \/ \E c \in Calls : SessionClosed(c)
    \/ Tick

SpecWindow == InitWindow /\ [][NextWindow]_vars

---------------------------------------------------------------------------
(* SpecSingle: one call of any operation, answered with any body. *)

NextSingle ==
    \/ \E w \in WasteTypeValues : FindNextPickup(1, w, DefaultDayOffset)
    \/ \E o \in ParameterOperations, p \in valid_params \cup {"bogus"}, r \in {"zurich", "bern"} :
           QueryParameters(1, o, p, r)
    \/ \E r \in Responses(BodiesFor(1)) : ResponseArrives(1, r)
    \/ JsonArrives(1)
    \/ SessionClosed(1)
    \/ \E o \in Objects : CallerClosesSession(o)

SpecSingle == Init /\ [][NextSingle]_vars

---------------------------------------------------------------------------
(* Notions the properties below share. *)

OwnerOf(operation) == IF operation = "find_next_pickup" THEN "connector" ELSE "parameters"

(* The call has got past the validation of its arguments. *)
Accepted(c) == pc[c] # "idle" /\ exc[c] # "ValueError"

(* find_next_pickup call c is over and _make_api_request gave it a body. *)
Parsed(c) == pc[c] = "done" /\ op[c] = "find_next_pickup" /\ result[c] # <<>>

Body(c) == result[c][1]

HasFirst(c) == Len(Body(c).result) > 0

First(c) == Body(c).result[1]

Returned(c) == exc[c] = "none" /\ ret[c] # <<>>

---------------------------------------------------------------------------
(* C1: find_next_pickup returns a PickupEvent only if the first entry of   *)
(* the result list has the connector's region, the connector's area and    *)
(* the requested waste type; whenever total_count > 0 and the first entry  *)
(* differs in one of the three, the call returns None.                     *)
C1_OnlyMatchingEntryReturned ==
    \A c \in Calls : Parsed(c) =>
        /\ (Returned(c) /\ ret[c] # <<PyNone>>) =>
              /\ HasFirst(c)
              /\ First(c)["region"] = region
              /\ First(c)["area"] = area
              /\ First(c)["waste_type"] = args[c].waste_type
        /\ ( /\ Body(c)._metadata.total_count > 0
             /\ HasFirst(c)
             /\ \/ First(c)["region"] # region
                \/ First(c)["area"] # area
                \/ First(c)["waste_type"] # args[c].waste_type ) =>
              (Returned(c) /\ ret[c] = <<PyNone>>)

(* A near match (only the area differs) with total_count > 0 gave None. *)
C1_Witness ==
    \E c \in Calls :
        /\ Parsed(c) /\ HasFirst(c)
        /\ Body(c)._metadata.total_count > 0
        /\ First(c)["region"] = region
        /\ First(c)["waste_type"] = args[c].waste_type
        /\ First(c)["area"] # area
        /\ ret[c] = <<PyNone>>

(* C2: with total_count = 0 find_next_pickup returns None whatever the     *)
(* result list holds.                                                      *)
C2_ZeroCountReturnsNone ==
    \A c \in Calls :
        (Parsed(c) /\ Body(c)._metadata.total_count = 0) =>
            (Returned(c) /\ ret[c] = <<PyNone>>)

(* total_count = 0 with a first entry that matches the configuration. *)
C2_Witness ==
    \E c \in Calls :
        /\ Parsed(c) /\ HasFirst(c)
        /\ Body(c)._metadata.total_count = 0
        /\ First(c)["region"] = region
        /\ First(c)["area"] = area
        /\ First(c)["waste_type"] = args[c].waste_type
        /\ ret[c] = <<PyNone>>

(* C3: a returned PickupEvent has the keys date, station and description   *)
(* of the first entry and no other; a field that is "" in the entry is     *)
(* None in the event, any other value is the entry's.                      *)
C3_EventFieldsNormalised ==
    \A c \in Calls :
        (Parsed(c) /\ Returned(c) /\ ret[c] # <<PyNone>>) =>
            LET event == ret[c][1]
            IN  /\ DOMAIN event \subseteq {"date", "station", "description"}
                /\ DOMAIN event = DOMAIN First(c) \cap {"date", "station", "description"}
                /\ \A k \in DOMAIN event :
                      /\ First(c)[k] = "" => event[k] = None
                      /\ First(c)[k] # "" => event[k] = First(c)[k]

(* An entry with a zip, an empty station and an empty description came     *)
(* back as the event {date, station: None, description: None}.            *)
C3_Witness ==
    \E c \in Calls :
        /\ Parsed(c) /\ Returned(c) /\ ret[c] # <<PyNone>>
        /\ "zip" \in DOMAIN First(c)
        /\ "station" \in DOMAIN First(c)
        /\ First(c)["station"] = "" /\ First(c)["description"] = ""
        /\ First(c)["date"] = "2026-11-05"
        /\ ret[c][1] = [date |-> "2026-11-05", station |-> None, description |-> None]

---------------------------------------------------------------------------
(* C4: every call that got past validation issues its GET on the session   *)
(* selected for it: the supplied one if it is open, else its private one.  *)
C4_RequestOnSelectedSession ==
    \A c \in Calls : Accepted(c) =>
        /\ request[c] # NoRequest
        /\ request[c].on = IF use_running_session[c] THEN "supplied" ELSE "private"

(* C5: a finished call has no private session still open. *)
C5_PrivateSessionClosed ==
    \A c \in Calls : pc[c] = "done" => session[c] # "open"

(* A finished call whose private session was created and closed. *)
C5_Witness ==
    \E c \in Calls : pc[c] = "done" /\ ~use_running_session[c] /\ session[c] = "closed"

(* C6: no step of a call closes (or changes) a supplied session, and a     *)
(* call creates a private session only when the supplied one is not open.  *)
C6_SuppliedSessionKept ==
    [][ (pc' # pc) =>
           /\ _session' = _session
           /\ \A c \in Calls :
                 (session[c] = "none" /\ session'[c] = "open") =>
                     _session[OwnerOf(op'[c])] # "open" ]_vars

(* A call on an open supplied session returned; the session is still open  *)
(* and the call made no private one.                                       *)
C6_Witness ==
    \E c \in Calls :
        /\ pc[c] = "done" /\ Returned(c)
        /\ use_running_session[c]
        /\ session[c] = "none"
        /\ _session[OwnerOf(op[c])] = "open"

(* C7: a non-2xx response with a well-formed body ends the call as a 2xx   *)
(* response with that body does.                                           *)
C7_NotOkStatusParsed ==
    \A c \in Calls :
        ( /\ pc[c] = "done"
          /\ resp[c] # NoResponse /\ resp[c] # TransportError
          /\ ~resp[c].ok
          /\ resp[c].body # Malformed ) =>
            /\ exc[c] = Outcome(op[c], args[c], "none", <<resp[c].body>>).exc
            /\ ret[c] = Outcome(op[c], args[c], "none", <<resp[c].body>>).ret

(* C8: _query_parameters with a param outside areas, regions, types raises *)
(* ValueError at once: no payload, no session, no request, no response.    *)
C8_InvalidParamRaisesFirst ==
    \A c \in Calls :
        ( /\ pc[c] # "idle"
          /\ op[c] \in ParameterOperations
          /\ args[c].param \notin {"areas", "regions", "types"} ) =>
            /\ pc[c] = "done"
            /\ exc[c] = "ValueError"
            /\ payload[c] = NoPayload
            /\ session[c] = "none"
            /\ request[c] = NoRequest
            /\ resp[c] = NoResponse
            /\ ret[c] = <<>>

(* _query_parameters("bogus") on an open supplied session raised. *)
C8_Witness ==
    \E c \in Calls :
        /\ pc[c] = "done" /\ op[c] = "_query_parameters"
        /\ args[c].param = "bogus"
        /\ exc[c] = "ValueError"
        /\ _session["parameters"] = "open"

---------------------------------------------------------------------------
(* C9: the window in each find_next_pickup call's payload, and in the      *)
(* request it issued, is that call's own: it starts on the day of the call *)
(* and ends day_offset days later, whatever other calls did meanwhile.     *)
C9_WindowOfOwnCall ==
    \A c \in Calls :
        (pc[c] # "idle" /\ op[c] = "find_next_pickup") =>
            /\ payload[c].start = strftime(started[c])
            /\ payload[c].end = payload[c].start + args[c].day_offset
            /\ request[c] # NoRequest => request[c].payload = payload[c]

(* Two calls in flight with different offsets, made on different days; the *)
(* connector's start_date is no longer the first call's.                   *)
C9_Witness ==
    \E c1, c2 \in Calls :
        /\ pc[c1] = "awaitGet" /\ pc[c2] = "awaitGet"
        /\ args[c1].day_offset # args[c2].day_offset
        /\ payload[c1].start # payload[c2].start
        /\ start_date # started[c1]
        /\ request[c1].payload.end = payload[c1].start + args[c1].day_offset

---------------------------------------------------------------------------
(* C10: get_areas(region) returns the areas of the entries of the raw      *)
(* result whose region is the argument, in the raw order: its k-th element *)
(* is the area of the k-th such entry.                                     *)
C10_AreasOfRegionInOrder ==
    \A c \in Calls :
        (pc[c] = "done" /\ op[c] = "get_areas" /\ result[c] # <<>>) =>
            LET raw == result[c][1].result
                hits == {i \in 1 .. Len(raw) : raw[i].region = args[c].region}
            IN  /\ Returned(c)
                /\ Len(ret[c][1]) = Cardinality(hits)
                /\ \A i \in hits :
                      ret[c][1][Cardinality({j \in hits : j <= i})] = raw[i].area

(* get_areas("zurich") on [{zurich, 8001}, {bern, 8002}] returned [8001]. *)
C10_Witness ==
    \E c \in Calls :
        /\ pc[c] = "done" /\ op[c] = "get_areas" /\ result[c] # <<>>
        /\ args[c].region = "zurich"
        /\ result[c][1].result = <<[region |-> "zurich", area |-> "8001"],
                                    [region |-> "bern", area |-> "8002"]>>
        /\ ret[c] = << <<"8001">> >>

====
